---------------------------- MODULE Spec2Model ----------------------------
(***************************************************************************)
(* Threema Web: the eeeMessageMedia directive controller (thumbnail        *)
(* visibility tracking and content download of one message attachment)     *)
(* and the bufferToUrl filter it uses.                                      *)
(*                                                                         *)
(* One behaviour of Spec is the life of one controller instance: the       *)
(* message it is bound to is chosen in Init and never changes; the steps    *)
(* are the calls the template makes (thumbnailInView, download) and the    *)
(* callbacks the event loop runs ($timeout firings, promise settlements).  *)
(***************************************************************************)
EXTENDS Integers, Sequences, FiniteSets, TLC

\* ------------------------------------------------------------------ bounds
\* Number of invisible -> visible transitions explored.
MaxVisible == 3
\* Number of requestBlob calls explored.
MaxDownloads == 2
\* Longest buffer handed to bufferToUrl on its own.
MaxBytes == 3
\* Number of requests of a GroupControllerModel outstanding at once.
MaxGroupRequests == 2

\* ------------------------------------------------------------------ values
Undefined == [kind |-> "undefined"]
Null == [kind |-> "null"]
ArrayBuffer(bytes) == [kind |-> "ArrayBuffer", bytes |-> bytes]

\* JavaScript truthiness of a buffer argument: undefined and null are falsy,
\* an ArrayBuffer object (of any length) is truthy.
Falsy(v) == v.kind \in {"undefined", "null"}

\* The base64 alphabet used by btoa.
Alphabet ==
    << "A","B","C","D","E","F","G","H","I","J","K","L","M","N","O","P",
       "Q","R","S","T","U","V","W","X","Y","Z","a","b","c","d","e","f",
       "g","h","i","j","k","l","m","n","o","p","q","r","s","t","u","v",
       "w","x","y","z","0","1","2","3","4","5","6","7","8","9","+","/" >>

Sextet(n) == Alphabet[n + 1]

\* btoa on a binary string given as its sequence of char codes (0..255):
\* three bytes become four sextets, the tail is padded with "=".
RECURSIVE btoa(_)
btoa(b) ==
    IF Len(b) = 0 THEN << >>
    ELSE IF Len(b) = 1 THEN
        << Sextet(b[1] \div 4), Sextet((b[1] % 4) * 16), "=", "=" >>
    ELSE IF Len(b) = 2 THEN
        << Sextet(b[1] \div 4),
           Sextet((b[1] % 4) * 16 + (b[2] \div 16)),
           Sextet((b[2] % 16) * 4), "=" >>
    ELSE
        << Sextet(b[1] \div 4),
           Sextet((b[1] % 4) * 16 + (b[2] \div 16)),
           Sextet((b[2] % 16) * 4 + (b[3] \div 64)),
           Sextet(b[3] % 64) >> \o btoa(SubSeq(b, 4, Len(b)))

\* A JavaScript string, as the sequence of its pieces; '' is Str(<< >>).
Str(chars) == [kind |-> "string", chars |-> chars]
\* $sce.trustAsResourceUrl(uri): the uri wrapped as a trusted resource url.
trustAsResourceUrl(uri) == [kind |-> "TrustedResourceUrl", chars |-> uri.chars]

\* bufferToUrl with the trust flag dropped: the uri is never wrapped.
bufferToUrlNoTrust(buffer, mimeType, trust) ==
    IF Falsy(buffer) THEN Str(<< >>)
    ELSE Str(<< "data:", mimeType, ";base64," >> \o btoa(buffer.bytes))

\* bufferToUrl with the copy loop stopping one byte early (i < len - 1).
bufferToUrlLastByteDropped(buffer, mimeType, trust) ==
    IF Falsy(buffer) THEN Str(<< >>)
    ELSE LET binary == SubSeq(buffer.bytes, 1, Len(buffer.bytes) - 1)
             uri == Str(<< "data:", mimeType, ";base64," >> \o btoa(binary))
         IN  IF trust THEN trustAsResourceUrl(uri) ELSE uri

\* filters.ts, filter 'bufferToUrl'.
bufferToUrl(buffer, mimeType, trust) ==
    IF Falsy(buffer) THEN Str(<< >>)
    ELSE LET binary == buffer.bytes
             uri == Str(<< "data:", mimeType, ";base64," >> \o btoa(binary))
         IN  IF trust THEN trustAsResourceUrl(uri) ELSE uri

\* ---------------------------------------------------------------- messages
\* message.thumbnail: undefined, a thumbnail without img (to be requested),
\* or a thumbnail carrying its image bytes.
NoThumbnail == [kind |-> "undefined", img |-> Undefined]
RemoteThumbnail == [kind |-> "thumbnail", img |-> Undefined]
EmbeddedThumbnail(bytes) == [kind |-> "thumbnail", img |-> ArrayBuffer(bytes)]

Msg(type, fileType, thumb, loc, tmp, caption) ==
    [type |-> type, fileType |-> fileType, thumbnail |-> thumb,
     location |-> loc, temporaryId |-> tmp, caption |-> caption]

\* The messages a controller is created for.
Messages ==
    { Msg("image", "", RemoteThumbnail, FALSE, "undefined", "hello"),
      Msg("image", "", EmbeddedThumbnail(<<1, 2>>), FALSE, "undefined", "undefined"),
      Msg("image", "", EmbeddedThumbnail(<<255>>), FALSE, "tmp1", ""),
      Msg("video", "", EmbeddedThumbnail(<<0, 0, 1>>), FALSE, "undefined", ""),
      Msg("file", "image/gif", EmbeddedThumbnail(<<71, 73, 70>>), FALSE, "undefined", ""),
      Msg("file", "application/pdf", NoThumbnail, FALSE, "null", ""),
      Msg("audio", "", NoThumbnail, FALSE, "undefined", ""),
      Msg("location", "", NoThumbnail, TRUE, "undefined", ""),
      Msg("text", "", NoThumbnail, FALSE, "undefined", "") }

\* Image buffers requestThumbnail resolves with.
Images == { ArrayBuffer(<<1, 2>>), ArrayBuffer(<<77, 97, 110>>) }

\* Results requestBlob resolves with.
BlobInfos ==
    { [buffer |-> ArrayBuffer(<<1>>), filename |-> "a.bin", mimetype |-> "image/png"],
      [buffer |-> ArrayBuffer(<<2, 3>>), filename |-> "b.bin", mimetype |-> "audio/ogg"] }

\* Reasons requestBlob rejects with.
BlobErrors == { "blobDownloadFailed", "blobDecryptFailed", "timeout" }

\* webClientService.appCapabilities.imageFormat.thumbnail
ThumbnailFormats == { "image/jpeg", "image/png" }

VARIABLES
    message,                 \* this.message (bound, never reassigned here)
    thumbnailFormat,         \* appCapabilities.imageFormat.thumbnail
    downloading,             \* this.downloading
    thumbnailDownloading,    \* this.thumbnailDownloading
    downloaded,              \* this.downloaded
    uploading,               \* this.uploading
    isAnimGif,               \* this.isAnimGif
    showThumbnail,           \* this.showThumbnail
    thumbnail,               \* this.thumbnail
    wasInView,               \* this.wasInView
    location,                \* this.location
    blobBuffer,              \* this.blobBuffer
    loadingThumbnailTimeout, \* the closure variable: last $timeout handle, 0 = null
    timers,                  \* handles of the 1000 ms $timeouts still pending
    thumbRequests,           \* requestThumbnail promises not yet settled
    thumbLoaded,             \* resolved requests whose inner $timeout is pending
    blobRequests,            \* number of requestBlob promises not yet settled
    effects,                 \* calls the last step made to mediabox, saveAs, $mdDialog
    period,                  \* history: number of invisible -> visible transitions
    issued,                  \* history: requestThumbnail calls, by issuing timer
    cancelled,               \* history: timers cancelled while still pending
    blobCalls,               \* history: number of requestBlob calls
    lastCall,                \* history: the step taken last
    filterIn,                \* arguments of a bufferToUrl application in a template
    filterOut,               \* what that application returned
    group,                   \* GroupControllerModel: this.group
    isLoading,               \* GroupControllerModel: this.isLoading
    onRemovedCallback,       \* GroupControllerModel: this.onRemovedCallback
    dialogs,                 \* confirm dialogs shown and not yet answered
    groupRequests,           \* per webClientService method, its unsettled promises
    onRemovedCalls,          \* history: callback invocations made by the last step
    lastGroupCall            \* history: the GroupControllerModel step taken last

ctrl == << downloading, thumbnailDownloading, downloaded, uploading, isAnimGif,
           showThumbnail, thumbnail, wasInView, location, blobBuffer >>
pending == << loadingThumbnailTimeout, timers, thumbRequests, thumbLoaded,
              blobRequests >>
history == << effects, period, issued, cancelled, blobCalls, lastCall >>
\* A GroupControllerModel instance.
groupModel == << group, isLoading, onRemovedCallback, dialogs, groupRequests,
                onRemovedCalls, lastGroupCall >>
\* State outside the controller.
others == << filterIn, filterOut, groupModel >>
vars == << message, thumbnailFormat, ctrl, pending, history, others >>

\* No requestBlob result: the step taken was not a settlement of requestBlob.
NoBlobInfo == [buffer |-> Undefined, filename |-> "", mimetype |-> ""]

Call(op, inView, id) ==
    [op |-> op, inView |-> inView, id |-> id,
     wasInView |-> wasInView, downloading |-> downloading,
     error |-> "", blobInfo |-> NoBlobInfo]

\* --------------------------------------------------------------- controller
\* controller: [function() { ... }], the constructor body, for message m.
constructor(m) ==
    /\ message = m
    /\ downloading = FALSE
    /\ thumbnailDownloading = FALSE
    /\ uploading = (message.temporaryId # "undefined" /\ message.temporaryId # "null")
    /\ isAnimGif = (/\ ~uploading
                    /\ message.type = "file"
                    /\ message.fileType = "image/gif")
    /\ showThumbnail = (/\ message.thumbnail.kind # "undefined"
                        /\ (message.type # "file" \/ isAnimGif))
    /\ thumbnail = Null
    /\ wasInView = FALSE
    /\ location = (IF message.location THEN "location" ELSE "null")
    /\ downloaded = message.location
    /\ blobBuffer = Undefined
    /\ loadingThumbnailTimeout = 0
    /\ timers = {}
    /\ thumbRequests = {}
    /\ thumbLoaded = {}
    /\ blobRequests = 0
    /\ effects = << >>
    /\ period = 0
    /\ issued = << >>
    /\ cancelled = {}
    /\ blobCalls = 0
    /\ lastCall = [op |-> "init", inView |-> FALSE, id |-> 0,
                   wasInView |-> FALSE, downloading |-> FALSE,
                   error |-> "", blobInfo |-> NoBlobInfo]

\* The filter has not been applied (yet).
NotApplied == [kind |-> "not applied"]
NoFilterInput == [buffer |-> Undefined, mimeType |-> "", trust |-> TRUE]

\* The methods of webClientService a GroupControllerModel calls.
GroupRequestKinds ==
    { "cleanReceiverConversation", "leaveGroup", "deleteGroup", "syncGroup" }
NoGroupRequests == [k \in GroupRequestKinds |-> 0]
GroupCall(op, ok) == [op |-> op, ok |-> ok, isLoading |-> isLoading]

\* new GroupControllerModel(..., g): isLoading = false, no callback registered.
GroupControllerModel(g) ==
    /\ group = g
    /\ isLoading = FALSE
    /\ onRemovedCallback = Undefined
    /\ dialogs = {}
    /\ groupRequests = NoGroupRequests
    /\ onRemovedCalls = << >>
    /\ lastGroupCall = [op |-> "constructor", ok |-> TRUE, isLoading |-> FALSE]

\* A controller is constructed for some message; no filter application and no
\* group model is followed.
Init ==
    /\ \E m \in Messages : constructor(m)
    /\ thumbnailFormat \in ThumbnailFormats
    /\ filterIn = NoFilterInput
    /\ filterOut = NotApplied
    /\ GroupControllerModel(Undefined)

\* A cancel that leaves the pending timeout in place.
timeoutCancelMissing(ts, handle) == ts

\* $timeout.cancel(handle) on the set ts of pending timeouts: a pending
\* timeout is removed; null, a fired or an already cancelled handle is a no-op.
timeoutCancel(ts, handle) == ts \ {handle}

\* The early return without the missing-thumbnail test.
ignoredOnlySameVisibility(inView) == wasInView = inView

\* The early return without the same-visibility test.
ignoredOnlyWithoutThumbnail(inView) == message.thumbnail.kind = "undefined"

\* if (this.message.thumbnail === undefined || this.wasInView === inView) return;
ignored(inView) ==
    message.thumbnail.kind = "undefined" \/ wasInView = inView

\* this.thumbnailInView = (inView: boolean) => { ... }
thumbnailInView(inView) ==
    /\ effects' = << >>
    /\ lastCall' = Call("thumbnailInView", inView, 0)
    /\ UNCHANGED others
    /\ UNCHANGED << message, thumbnailFormat, downloading, downloaded, uploading,
                    isAnimGif, showThumbnail, location, blobBuffer,
                    thumbRequests, thumbLoaded, blobRequests, issued, blobCalls >>
    /\ IF ignored(inView)
       THEN \* do nothing
            UNCHANGED << wasInView, thumbnailDownloading, thumbnail,
                         loadingThumbnailTimeout, timers, period, cancelled >>
       ELSE /\ wasInView' = inView
            /\ IF ~inView
               THEN /\ timers' = timeoutCancel(timers, loadingThumbnailTimeout)
                    /\ cancelled' = cancelled \cup (timers \cap {loadingThumbnailTimeout})
                    /\ thumbnailDownloading' = FALSE
                    /\ thumbnail' = Null
                    /\ UNCHANGED << loadingThumbnailTimeout, period >>
               ELSE /\ period < MaxVisible
                    /\ period' = period + 1
                    /\ UNCHANGED cancelled
                    /\ IF thumbnail = Null
                       THEN IF message.thumbnail.img # Undefined
                            THEN \* trust is left to its default, true
                                 /\ thumbnail' = bufferToUrl(message.thumbnail.img,
                                                             thumbnailFormat, TRUE)
                                 /\ UNCHANGED << thumbnailDownloading,
                                                 loadingThumbnailTimeout, timers >>
                            ELSE /\ thumbnailDownloading' = TRUE
                                 /\ loadingThumbnailTimeout' = period + 1
                                 /\ timers' = timers \cup {period + 1}
                                 /\ UNCHANGED thumbnail
                       ELSE UNCHANGED << thumbnailDownloading, thumbnail,
                                         loadingThumbnailTimeout, timers >>

\* The 1000 ms $timeout callback: webClientService.requestThumbnail(...).
loadingThumbnailTimeoutFires(t) ==
    /\ t \in timers
    /\ timers' = timers \ {t}
    /\ thumbRequests' = thumbRequests \cup {t}
    /\ issued' = Append(issued, t)
    /\ effects' = << >>
    /\ lastCall' = Call("loadingThumbnailTimeout", FALSE, t)
    /\ UNCHANGED others
    /\ UNCHANGED << message, thumbnailFormat, ctrl, loadingThumbnailTimeout,
                    thumbLoaded, blobRequests, period, cancelled, blobCalls >>

\* requestThumbnail(...).then((img) => { $timeout(() => {...}); })
requestThumbnailResolved(r, img) ==
    /\ r \in thumbRequests
    /\ thumbRequests' = thumbRequests \ {r}
    /\ thumbLoaded' = thumbLoaded \cup {[id |-> r, img |-> img]}
    /\ effects' = << >>
    /\ lastCall' = Call("requestThumbnailResolved", FALSE, r)
    /\ UNCHANGED others
    /\ UNCHANGED << message, thumbnailFormat, ctrl, loadingThumbnailTimeout, timers,
                    blobRequests, period, issued, cancelled, blobCalls >>

\* requestThumbnail(...) rejects: the promise has no rejection handler.
requestThumbnailRejected(r) ==
    /\ r \in thumbRequests
    /\ thumbRequests' = thumbRequests \ {r}
    /\ effects' = << >>
    /\ lastCall' = Call("requestThumbnailRejected", FALSE, r)
    /\ UNCHANGED others
    /\ UNCHANGED << message, thumbnailFormat, ctrl, loadingThumbnailTimeout, timers,
                    thumbLoaded, blobRequests, period, issued, cancelled,
                    blobCalls >>

\* The inner callback without this.thumbnailDownloading = false.
thumbnailLoadedFlagKept(l) ==
    /\ l \in thumbLoaded
    /\ thumbLoaded' = thumbLoaded \ {l}
    /\ thumbnail' = bufferToUrl(l.img, thumbnailFormat, TRUE)
    /\ effects' = << >>
    /\ lastCall' = Call("thumbnailLoaded", FALSE, l.id)
    /\ UNCHANGED others
    /\ UNCHANGED << message, thumbnailFormat, downloading, downloaded, uploading,
                    isAnimGif, showThumbnail, wasInView, location, blobBuffer,
                    thumbnailDownloading, loadingThumbnailTimeout, timers,
                    thumbRequests, blobRequests, period, issued, cancelled,
                    blobCalls >>

\* The inner callback clearing this.downloading in place of
\* this.thumbnailDownloading.
thumbnailLoadedClearsDownloading(l) ==
    /\ l \in thumbLoaded
    /\ thumbLoaded' = thumbLoaded \ {l}
    /\ thumbnail' = bufferToUrl(l.img, thumbnailFormat, TRUE)
    /\ downloading' = FALSE
    /\ effects' = << >>
    /\ lastCall' = Call("thumbnailLoaded", FALSE, l.id)
    /\ UNCHANGED others
    /\ UNCHANGED << message, thumbnailFormat, thumbnailDownloading, downloaded,
                    uploading, isAnimGif, showThumbnail, wasInView, location,
                    blobBuffer, loadingThumbnailTimeout, timers, thumbRequests,
                    blobRequests, period, issued, cancelled, blobCalls >>

\* The inner $timeout callback of the then-handler.
thumbnailLoaded(l) ==
    /\ l \in thumbLoaded
    /\ thumbLoaded' = thumbLoaded \ {l}
    /\ thumbnail' = bufferToUrl(l.img, thumbnailFormat, TRUE)
    /\ thumbnailDownloading' = FALSE
    /\ effects' = << >>
    /\ lastCall' = Call("thumbnailLoaded", FALSE, l.id)
    /\ UNCHANGED others
    /\ UNCHANGED << message, thumbnailFormat, downloading, downloaded, uploading,
                    isAnimGif, showThumbnail, wasInView, location, blobBuffer,
                    loadingThumbnailTimeout, timers, thumbRequests, blobRequests,
                    period, issued, cancelled, blobCalls >>

\* The re-entrancy guard left out.
downloadInProgressIgnored == FALSE

\* if (this.downloading) { ...; return; }
downloadInProgress == downloading

\* this.download = () => { ... } up to the requestBlob call.
download ==
    /\ effects' = << >>
    /\ lastCall' = Call("download", FALSE, 0)
    /\ UNCHANGED others
    /\ UNCHANGED << message, thumbnailFormat, thumbnailDownloading, downloaded,
                    uploading, isAnimGif, showThumbnail, thumbnail, wasInView,
                    location, blobBuffer, loadingThumbnailTimeout, timers,
                    thumbRequests, thumbLoaded, period, issued, cancelled >>
    /\ IF downloadInProgress
       THEN \* download already in progress...
            UNCHANGED << downloading, blobRequests, blobCalls >>
       ELSE /\ blobCalls < MaxDownloads
            /\ downloading' = TRUE
            /\ blobRequests' = blobRequests + 1
            /\ blobCalls' = blobCalls + 1

\* const caption = message.caption || '';  (undefined and '' are falsy)
captionOrEmpty == IF message.caption \in {"undefined", ""} THEN "" ELSE message.caption

\* The gif test of case 'file' failing for every file.
showInlineNever == FALSE

\* case 'file': if (this.message.file.type === 'image/gif') show inline
showInline == message.type = "file" /\ message.fileType = "image/gif"

\* The switch with case 'audio' saving the file instead of playing it.
downloadActionAudioSaved(blobInfo) ==
    CASE message.type = "image" ->
            << [call |-> "mediaboxService.setMedia", buffer |-> blobInfo.buffer,
                filename |-> blobInfo.filename, mimetype |-> blobInfo.mimetype,
                text |-> captionOrEmpty] >>
      [] message.type \in {"video", "audio"} ->
            << [call |-> "saveAs", buffer |-> blobInfo.buffer,
                filename |-> blobInfo.filename, mimetype |-> "", text |-> ""] >>
      [] message.type = "file" /\ ~showInline ->
            << [call |-> "saveAs", buffer |-> blobInfo.buffer,
                filename |-> blobInfo.filename, mimetype |-> "", text |-> ""] >>
      [] OTHER -> << >>

\* The switch with its default case saving the file.
downloadActionDefaultSaves(blobInfo) ==
    CASE message.type = "image" ->
            << [call |-> "mediaboxService.setMedia", buffer |-> blobInfo.buffer,
                filename |-> blobInfo.filename, mimetype |-> blobInfo.mimetype,
                text |-> captionOrEmpty] >>
      [] message.type = "audio" ->
            << [call |-> "playAudio", buffer |-> blobInfo.buffer,
                filename |-> "", mimetype |-> "", text |-> ""] >>
      [] message.type = "file" /\ showInline -> << >>
      [] OTHER ->
            << [call |-> "saveAs", buffer |-> blobInfo.buffer,
                filename |-> blobInfo.filename, mimetype |-> "", text |-> ""] >>

\* The side effect of the then-handler's switch (this.message.type).
downloadAction(blobInfo) ==
    CASE message.type = "image" ->
            << [call |-> "mediaboxService.setMedia", buffer |-> blobInfo.buffer,
                filename |-> blobInfo.filename, mimetype |-> blobInfo.mimetype,
                text |-> captionOrEmpty] >>
      [] message.type = "video" ->
            << [call |-> "saveAs", buffer |-> blobInfo.buffer,
                filename |-> blobInfo.filename, mimetype |-> "", text |-> ""] >>
      [] message.type = "file" /\ ~showInline ->
            << [call |-> "saveAs", buffer |-> blobInfo.buffer,
                filename |-> blobInfo.filename, mimetype |-> "", text |-> ""] >>
      [] message.type = "audio" ->
            << [call |-> "playAudio", buffer |-> blobInfo.buffer,
                filename |-> "", mimetype |-> "", text |-> ""] >>
      [] OTHER -> << >>

\* requestBlob(...).then((blobInfo) => { $rootScope.$apply(() => {...}); })
requestBlobResolved(blobInfo) ==
    /\ blobRequests > 0
    /\ blobRequests' = blobRequests - 1
    /\ downloading' = FALSE
    /\ downloaded' = TRUE
    /\ effects' = downloadAction(blobInfo)
    /\ IF showInline
       THEN /\ blobBuffer' = blobInfo.buffer
            /\ showThumbnail' = FALSE
       ELSE UNCHANGED << blobBuffer, showThumbnail >>
    /\ lastCall' = [Call("requestBlobResolved", FALSE, 0) EXCEPT !.blobInfo = blobInfo]
    /\ UNCHANGED others
    /\ UNCHANGED << message, thumbnailFormat, thumbnailDownloading, uploading,
                    isAnimGif, thumbnail, wasInView, location,
                    loadingThumbnailTimeout, timers, thumbRequests, thumbLoaded,
                    period, issued, cancelled, blobCalls >>

\* The switch with the two named cases exchanged.
contentStringExchanged(error) ==
    CASE error = "blobDownloadFailed" -> "error.BLOB_DECRYPT_FAILED"
      [] error = "blobDecryptFailed" -> "error.BLOB_DOWNLOAD_FAILED"
      [] OTHER -> "error.ERROR_OCCURRED"

\* The catch-handler's switch (error).
contentString(error) ==
    CASE error = "blobDownloadFailed" -> "error.BLOB_DOWNLOAD_FAILED"
      [] error = "blobDecryptFailed" -> "error.BLOB_DECRYPT_FAILED"
      [] OTHER -> "error.ERROR_OCCURRED"

\* The catch-handler without this.downloading = false.
requestBlobRejectedFlagKept(error) ==
    /\ blobRequests > 0
    /\ blobRequests' = blobRequests - 1
    /\ effects' = << [call |-> "$mdDialog.show", buffer |-> Undefined,
                       filename |-> "", mimetype |-> "",
                       text |-> contentString(error)] >>
    /\ lastCall' = [Call("requestBlobRejected", FALSE, 0) EXCEPT !.error = error]
    /\ UNCHANGED others
    /\ UNCHANGED << message, thumbnailFormat, downloading, thumbnailDownloading,
                    downloaded, uploading, isAnimGif, showThumbnail, thumbnail,
                    wasInView, location, blobBuffer, loadingThumbnailTimeout, timers,
                    thumbRequests, thumbLoaded, period, issued, cancelled, blobCalls >>

\* requestBlob(...).catch((error) => { $rootScope.$apply(() => {...}); })
requestBlobRejected(error) ==
    /\ blobRequests > 0
    /\ blobRequests' = blobRequests - 1
    /\ downloading' = FALSE
    /\ effects' = << [call |-> "$mdDialog.show", buffer |-> Undefined,
                       filename |-> "", mimetype |-> "",
                       text |-> contentString(error)] >>
    /\ lastCall' = [Call("requestBlobRejected", FALSE, 0) EXCEPT !.error = error]
    /\ UNCHANGED others
    /\ UNCHANGED << message, thumbnailFormat, thumbnailDownloading, downloaded,
                    uploading, isAnimGif, showThumbnail, thumbnail, wasInView,
                    location, blobBuffer, loadingThumbnailTimeout, timers,
                    thumbRequests, thumbLoaded, period, issued, cancelled, blobCalls >>

\* A JavaScript boolean.
Bool(b) == [kind |-> "boolean", value |-> b]
\* JavaScript truthiness of undefined, null and booleans.
Truthy(v) == ~Falsy(v) /\ (v.kind = "boolean" => v.value)

\* The binding showDownloading: '=eeeShowDownloading': absent, or a predicate
\* that currently returns true or false.
ShowDownloadings ==
    { Undefined, [kind |-> "function", returns |-> TRUE],
      [kind |-> "function", returns |-> FALSE] }

\* isDownloading without the thumbnail flag.
isDownloadingContentOnly(showDownloading) ==
    IF downloading THEN Bool(TRUE)
    ELSE IF Falsy(showDownloading) THEN showDownloading
    ELSE Bool(showDownloading.returns)

\* this.isDownloading = () => this.downloading || this.thumbnailDownloading
\*     || (this.showDownloading && this.showDownloading());
\* a || b yields a when a is truthy and b otherwise, a && b yields a when a is falsy.
isDownloading(showDownloading) ==
    IF downloading THEN Bool(downloading)
    ELSE IF thumbnailDownloading THEN Bool(thumbnailDownloading)
    ELSE IF Falsy(showDownloading) THEN showDownloading
    ELSE Bool(showDownloading.returns)

Next ==
    \/ \E inView \in BOOLEAN : thumbnailInView(inView)
    \/ \E t \in timers : loadingThumbnailTimeoutFires(t)
    \/ \E r \in thumbRequests, img \in Images : requestThumbnailResolved(r, img)
    \/ \E r \in thumbRequests : requestThumbnailRejected(r)
    \/ \E l \in thumbLoaded : thumbnailLoaded(l)
    \/ download
    \/ \E blobInfo \in BlobInfos : requestBlobResolved(blobInfo)
    \/ \E error \in BlobErrors : requestBlobRejected(error)

Spec == Init /\ [][Next]_vars

\* The collaborator settles every requestBlob call.
FairDownloadSpec ==
    Spec /\ WF_vars(\/ \E blobInfo \in BlobInfos : requestBlobResolved(blobInfo)
                    \/ \E error \in BlobErrors : requestBlobRejected(error))

\* ------------------------------------------------------ the filter on its own
\* Byte values the buffers are built from: both ends of the range and values
\* that differ in each of the bit fields btoa cuts a byte into.
ByteValues == {0, 1, 2, 77, 97, 110, 128, 255}

RECURSIVE ByteSeqs(_)
ByteSeqs(n) ==
    IF n = 0 THEN { << >> }
    ELSE LET shorter == ByteSeqs(n - 1)
         IN  shorter \cup { Append(b, v) : b \in shorter, v \in ByteValues }

\* Buffers a template hands to the filter: absent ones, the empty one, every
\* single byte, and the sequences over ByteValues up to MaxBytes.
FilterBuffers ==
    {Undefined, Null}
        \cup { ArrayBuffer(b) : b \in ByteSeqs(MaxBytes) }
        \cup { ArrayBuffer(<< v >>) : v \in 0..255 }

FilterInputs ==
    [buffer : FilterBuffers, mimeType : {"image/png", "audio/ogg"}, trust : BOOLEAN]

FilterInit ==
    /\ constructor(Msg("text", "", NoThumbnail, FALSE, "undefined", ""))
    /\ thumbnailFormat = "image/jpeg"
    /\ filterIn \in FilterInputs
    /\ filterOut = NotApplied
    /\ GroupControllerModel(Undefined)

\* {{ buffer | bufferToUrl: mimeType : trust }}
applyBufferToUrl ==
    /\ filterOut = NotApplied
    /\ filterOut' = bufferToUrl(filterIn.buffer, filterIn.mimeType, filterIn.trust)
    /\ UNCHANGED << message, thumbnailFormat, ctrl, pending, history, filterIn,
                    groupModel >>

FilterNext == applyBufferToUrl

FilterSpec == FilterInit /\ [][FilterNext]_vars

\* ------------------------------------------------- the group controller model
\* group.access with the three rights the model reads.
Access(canLeave, canDelete, canSync) ==
    [kind |-> "access", canLeave |-> canLeave, canDelete |-> canDelete,
     canSync |-> canSync]
Group(id, access) == [kind |-> "group", id |-> id, access |-> access]

\* The receivers a model is constructed for: groups with different rights, a
\* group without access information, and none (mode NEW).
Groups ==
    { Group("g1", Access(TRUE, TRUE, TRUE)),
      Group("g2", Access(TRUE, FALSE, TRUE)),
      Group("g3", Access(FALSE, TRUE, FALSE)),
      Group("g4", Access(FALSE, FALSE, FALSE)),
      Group("g5", Undefined),
      Undefined }

\* The values setOnRemoved is called with.
Callbacks ==
    { Undefined, [kind |-> "function", name |-> "onRemoved"],
      [kind |-> "function", name |-> "onRemovedLater"] }

\* The confirm dialogs of clean, leave and delete.
DialogKinds == { "clean", "leave", "delete" }

\* State of the media controller and the filter, which the group model leaves alone.
outsideGroup ==
    << message, thumbnailFormat, ctrl, pending, history, filterIn, filterOut >>

GroupInit ==
    /\ constructor(Msg("text", "", NoThumbnail, FALSE, "undefined", ""))
    /\ thumbnailFormat = "image/jpeg"
    /\ filterIn = NoFilterInput
    /\ filterOut = NotApplied
    /\ \E g \in Groups : GroupControllerModel(g)

\* Number of requests of the model that are not settled.
Unsettled ==
    groupRequests["cleanReceiverConversation"] + groupRequests["leaveGroup"]
        + groupRequests["deleteGroup"] + groupRequests["syncGroup"]

\* Reading this.group.access.<right> throws a TypeError when there is no group
\* or the group has no access information.
accessThrows == Falsy(group) \/ Falsy(group.access)

\* this.isLoading = true; this.webClientService.<k>(this.group)
groupRequest(k) ==
    /\ Unsettled < MaxGroupRequests
    /\ isLoading' = TRUE
    /\ groupRequests' = [groupRequests EXCEPT ![k] = @ + 1]

\* public setOnRemoved(callback: any): void
setOnRemoved(callback) ==
    /\ onRemovedCallback' = callback
    /\ onRemovedCalls' = << >>
    /\ lastGroupCall' = GroupCall("setOnRemoved", TRUE)
    /\ UNCHANGED << group, isLoading, dialogs, groupRequests >>
    /\ UNCHANGED outsideGroup

\* clean(ev), leave(ev), delete(ev): $mdDialog.show(confirm). leave reads
\* this.group.administrator for the dialog text and throws without a group.
showConfirm(d) ==
    /\ dialogs' = IF d = "leave" /\ Falsy(group) THEN dialogs ELSE dialogs \cup {d}
    /\ onRemovedCalls' = << >>
    /\ lastGroupCall' = GroupCall(d, ~(d = "leave" /\ Falsy(group)))
    /\ UNCHANGED << group, isLoading, onRemovedCallback, groupRequests >>
    /\ UNCHANGED outsideGroup

\* The dialog is cancelled: the rejection handler only logs.
confirmCancelled(d) ==
    /\ d \in dialogs
    /\ dialogs' = dialogs \ {d}
    /\ onRemovedCalls' = << >>
    /\ lastGroupCall' = GroupCall("cancelled", FALSE)
    /\ UNCHANGED << group, isLoading, onRemovedCallback, groupRequests >>
    /\ UNCHANGED outsideGroup

\* private reallyClean(): canClean() is canView(), which returns true.
reallyClean ==
    /\ groupRequest("cleanReceiverConversation")
    /\ lastGroupCall' = GroupCall("reallyClean", TRUE)

\* private reallyLeave()
reallyLeave ==
    IF accessThrows \/ ~group.access.canLeave
    THEN /\ UNCHANGED << isLoading, groupRequests >>
         /\ lastGroupCall' = GroupCall("reallyLeave", FALSE)
    ELSE /\ groupRequest("leaveGroup")
         /\ lastGroupCall' = GroupCall("reallyLeave", TRUE)

\* if (!this.group.access.canDelete) { ...; return; }
canNotDelete == ~group.access.canDelete

\* private reallyDelete()
reallyDelete ==
    IF accessThrows \/ canNotDelete
    THEN /\ UNCHANGED << isLoading, groupRequests >>
         /\ lastGroupCall' = GroupCall("reallyDelete", FALSE)
    ELSE /\ groupRequest("deleteGroup")
         /\ lastGroupCall' = GroupCall("reallyDelete", TRUE)

\* The dialog is confirmed: this.$mdDialog.show(confirm).then(() => this.really...())
confirmed(d) ==
    /\ d \in dialogs
    /\ dialogs' = dialogs \ {d}
    /\ onRemovedCalls' = << >>
    /\ CASE d = "clean" -> reallyClean
         [] d = "leave" -> reallyLeave
         [] d = "delete" -> reallyDelete
    /\ UNCHANGED << group, onRemovedCallback >>
    /\ UNCHANGED outsideGroup

\* public sync(ev): void
sync ==
    /\ IF accessThrows \/ ~group.access.canSync
       THEN /\ UNCHANGED << isLoading, groupRequests >>
            /\ lastGroupCall' = GroupCall("sync", FALSE)
       ELSE /\ groupRequest("syncGroup")
            /\ lastGroupCall' = GroupCall("sync", TRUE)
    /\ onRemovedCalls' = << >>
    /\ UNCHANGED << group, onRemovedCallback, dialogs >>
    /\ UNCHANGED outsideGroup

\* The callback invoked whether the request succeeded or not.
onRemovedAlways(k, ok) ==
    IF k = "deleteGroup" /\ ~Falsy(onRemovedCallback)
    THEN << [callback |-> onRemovedCallback, arg |-> group.id] >>
    ELSE << >>

\* if (this.onRemovedCallback) { this.onRemovedCallback(this.group.id); } in the
\* then-handler of deleteGroup; no other handler calls it.
onRemoved(k, ok) ==
    IF k = "deleteGroup" /\ ok /\ ~Falsy(onRemovedCallback)
    THEN << [callback |-> onRemovedCallback, arg |-> group.id] >>
    ELSE << >>

\* The then-handler (ok) or the catch-handler of a request of method k.
groupRequestSettled(k, ok) ==
    /\ groupRequests[k] > 0
    /\ groupRequests' = [groupRequests EXCEPT ![k] = @ - 1]
    /\ isLoading' = FALSE
    /\ onRemovedCalls' = onRemoved(k, ok)
    /\ lastGroupCall' = GroupCall(k, ok)
    /\ UNCHANGED << group, onRemovedCallback, dialogs >>
    /\ UNCHANGED outsideGroup

GroupNext ==
    \/ \E callback \in Callbacks : setOnRemoved(callback)
    \/ \E d \in DialogKinds : showConfirm(d)
    \/ \E d \in dialogs : confirmCancelled(d)
    \/ \E d \in dialogs : confirmed(d)
    \/ sync
    \/ \E k \in GroupRequestKinds, ok \in BOOLEAN : groupRequestSettled(k, ok)

GroupSpec == GroupInit /\ [][GroupNext]_vars

\* $timeout runs a scheduled callback unless it is cancelled first.
FairSpec == Spec /\ WF_vars(\E t \in timers : loadingThumbnailTimeoutFires(t))

\* $timeout also runs the inner callback of the then-handler, which nothing
\* cancels; the settlement of requestThumbnail itself is left to the collaborator.
FairThumbnailSpec == FairSpec /\ WF_vars(\E l \in thumbLoaded : thumbnailLoaded(l))

\* Every scheduled callback runs and every request is settled.
FairCallbacksSpec ==
    /\ FairThumbnailSpec
    /\ WF_vars(\/ \E r \in thumbRequests, img \in Images : requestThumbnailResolved(r, img)
               \/ \E r \in thumbRequests : requestThumbnailRejected(r))
    /\ WF_vars(\/ \E blobInfo \in BlobInfos : requestBlobResolved(blobInfo)
               \/ \E error \in BlobErrors : requestBlobRejected(error))

\* ------------------------------------------------------------ properties
\* The message has a thumbnail whose image must be requested.
RemoteThumb == message.thumbnail.kind = "thumbnail" /\ message.thumbnail.img = Undefined
\* The message carries its thumbnail image.
EmbeddedThumb == message.thumbnail.kind = "thumbnail" /\ message.thumbnail.img # Undefined

\* A request issued by the timer of visible period r is stale once
\* thumbnailInView(false) has been processed after it was issued.
Stale(r) == r # period \/ ~wasInView

Range(seq) == { seq[i] : i \in 1..Len(seq) }

\* C1: download() while downloading is true issues no requestBlob call and
\* changes no state, and at most one requestBlob call is outstanding at any time.
C1_AtMostOneContentRequest ==
    /\ [](blobRequests <= 1)
    /\ [][(lastCall'.op = "download" /\ downloading)
            => UNCHANGED << message, thumbnailFormat, ctrl, pending, blobCalls >>]_vars

C1_Witness ==
    lastCall.op = "download" /\ lastCall.downloading /\ blobRequests = 1

\* C2: for an attachment without embedded thumbnail image, at most one thumbnail
\* fetch (a pending debounce timer or an unsettled requestThumbnail call) is
\* outstanding at any time.
C2_AtMostOneThumbnailFetch ==
    RemoteThumb => Cardinality(timers) + Cardinality(thumbRequests) <= 1

\* C3: the completion of a requestThumbnail call that was in flight when
\* thumbnailInView(false) was processed changes neither thumbnail nor
\* thumbnailDownloading.
C3_StaleCompletionIgnored ==
    [][\A l \in thumbLoaded \ thumbLoaded' :
          Stale(l.id) => /\ thumbnail' = thumbnail
                         /\ thumbnailDownloading' = thumbnailDownloading]_vars

\* C4: in every reachable state downloaded implies not downloading.
C4_DownloadedImpliesNotDownloading == downloaded => ~downloading

\* C5: thumbnailDownloading and a non-null thumbnail never hold together.
C5_FetchingExcludesThumbnail == ~(thumbnailDownloading /\ thumbnail # Null)

\* A completion of an earlier visible period's request was applied while the
\* current period's timer is pending.
C5_Witness ==
    /\ lastCall.op = "thumbnailLoaded"
    /\ lastCall.id < period
    /\ wasInView
    /\ timers # {}
    /\ thumbnail # Null

\* C6: with an embedded thumbnail image, the transition from invisible to visible
\* sets thumbnail to the trusted data uri of that image in thumbnailFormat, starts
\* no timer, issues no request and leaves thumbnailDownloading false.
C6_EmbeddedThumbnailImmediate ==
    [][(EmbeddedThumb /\ ~wasInView /\ wasInView')
         => /\ thumbnail' = bufferToUrl(message.thumbnail.img, thumbnailFormat, TRUE)
            /\ thumbnail'.kind = "TrustedResourceUrl"
            /\ SubSeq(thumbnail'.chars, 1, 3) = << "data:", thumbnailFormat, ";base64," >>
            /\ (message.thumbnail.img = ArrayBuffer(<<1, 2>>)
                  => SubSeq(thumbnail'.chars, 4, Len(thumbnail'.chars))
                       = << "A", "Q", "I", "=" >>)
            /\ timers' = timers /\ timers = {}
            /\ thumbRequests' = thumbRequests
            /\ issued' = issued
            /\ ~thumbnailDownloading']_vars

C6_Witness ==
    /\ EmbeddedThumb
    /\ lastCall.op = "thumbnailInView" /\ lastCall.inView /\ ~lastCall.wasInView
    /\ thumbnail # Null
    /\ period = 2

\* C7: without embedded image, each transition from invisible to visible schedules
\* exactly one deferred fetch and sets thumbnailDownloading; a transition to
\* invisible before the timer fires leaves no timer, issues no request for that
\* visible period and leaves thumbnailDownloading false.
C7_VisibleSchedulesOneFetch ==
    [][RemoteThumb
         => /\ (~wasInView /\ wasInView')
                 => /\ Cardinality(timers' \ timers) = 1
                    /\ thumbnailDownloading'
            /\ (wasInView /\ ~wasInView' /\ loadingThumbnailTimeout \in timers)
                 => /\ timers' = {}
                    /\ period \notin Range(issued')
                    /\ ~thumbnailDownloading']_vars

\* Every visible period before the current one was ended while its timer was
\* still pending.
C8_EarlierPeriodsCancelled ==
    RemoteThumb /\ wasInView /\ cancelled = 1..(period - 1)

\* C8: when every visible period but the last ends before its timer fires, at most
\* one requestThumbnail call is made, by the last period's timer, and that timer
\* does make it unless the attachment leaves the view first.
C8_OneFetchInLastPeriod ==
    /\ [](C8_EarlierPeriodsCancelled
            => /\ Range(issued) \subseteq {period}
               /\ Len(issued) <= 1
               /\ (issued = << >> => timers = {period}))
    /\ (C8_EarlierPeriodsCancelled /\ issued = << >>)
          ~> (Len(issued) = 1 \/ ~wasInView)

C8_Witness ==
    C8_EarlierPeriodsCancelled /\ period >= 2 /\ issued = << period >>

\* C9: thumbnailInView(v) with v equal to wasInView changes no field, schedules no
\* timer and issues no request.
C9_SameVisibilityIsNoOp ==
    [][(lastCall'.op = "thumbnailInView" /\ lastCall'.inView = wasInView)
         => UNCHANGED << message, thumbnailFormat, ctrl, pending,
                         period, issued, cancelled, blobCalls >>]_vars

\* thumbnailInView(true) was called while visible with the timer pending.
C9_Witness ==
    /\ lastCall.op = "thumbnailInView"
    /\ lastCall.inView /\ lastCall.wasInView
    /\ RemoteThumb
    /\ timers # {}

\* C10: when the requestThumbnail call of the current visible period is rejected
\* while the attachment is visible, thumbnailDownloading is cleared, thumbnail is
\* null and no dialog is shown.
C10_ThumbnailFailureClearsFlag ==
    (lastCall.op = "requestThumbnailRejected" /\ lastCall.id = period /\ wasInView)
        => /\ ~thumbnailDownloading
           /\ thumbnail = Null
           /\ effects = << >>

\* C11: after a content fetch fails, whatever the reason and the earlier
\* downloads, downloading is false and downloaded is false.
C11_FailedFetchNotDownloaded ==
    lastCall.op = "requestBlobRejected" => (~downloading /\ ~downloaded)

\* C12: a failed content fetch shows exactly one alert, with the message of its
\* reason: blobDownloadFailed the download message, blobDecryptFailed the
\* decryption message, any other reason the generic one; no other step shows an
\* alert.
C12_OneAlertPerFailure ==
    /\ lastCall.op = "requestBlobRejected"
         => /\ Len(effects) = 1
            /\ effects[1].call = "$mdDialog.show"
            /\ effects[1].text =
                 (IF lastCall.error = "blobDownloadFailed"
                    THEN "error.BLOB_DOWNLOAD_FAILED"
                  ELSE IF lastCall.error = "blobDecryptFailed"
                    THEN "error.BLOB_DECRYPT_FAILED"
                  ELSE "error.ERROR_OCCURRED")
    /\ lastCall.op # "requestBlobRejected"
         => \A i \in 1..Len(effects) : effects[i].call # "$mdDialog.show"

\* The second fetch of an attachment failed with a decryption error.
C12_Witness ==
    /\ lastCall.op = "requestBlobRejected"
    /\ lastCall.error = "blobDecryptFailed"
    /\ blobCalls = 2

\* C13: when every requestBlob call is eventually settled, downloading always
\* becomes false again, and a download() that follows a failure issues a new
\* requestBlob call.
C13_DownloadSettlesAndRetries ==
    /\ []<>~downloading
    /\ [][(lastCall.op = "requestBlobRejected" /\ lastCall'.op = "download")
            => /\ blobCalls' = blobCalls + 1
               /\ blobRequests' = blobRequests + 1
               /\ downloading']_vars

\* download() was called right after a failed fetch and has a request in flight.
C13_Witness ==
    /\ lastCall.op = "download"
    /\ ~lastCall.downloading
    /\ blobCalls = 2
    /\ ~downloaded
    /\ blobRequests = 1

\* C14: a successful content fetch sets downloading = false and downloaded = true
\* and triggers exactly one action on the fetched bytes: image the media viewer
\* (buffer, filename, mimetype, caption or ''), video a file save under the
\* suggested filename, file other than image/gif a file save, audio the audio
\* player on the buffer.
C14_SuccessDispatchesByType ==
    lastCall.op = "requestBlobResolved"
      => LET b == lastCall.blobInfo
             saved == << [call |-> "saveAs", buffer |-> b.buffer,
                          filename |-> b.filename, mimetype |-> "", text |-> ""] >>
         IN  /\ ~downloading
             /\ downloaded
             /\ message.type = "image"
                  => effects = << [call |-> "mediaboxService.setMedia",
                                   buffer |-> b.buffer, filename |-> b.filename,
                                   mimetype |-> b.mimetype,
                                   text |-> IF message.caption = "undefined"
                                              THEN "" ELSE message.caption] >>
             /\ message.type = "video" => effects = saved
             /\ (message.type = "file" /\ message.fileType # "image/gif")
                  => effects = saved
             /\ message.type = "audio"
                  => effects = << [call |-> "playAudio", buffer |-> b.buffer,
                                   filename |-> "", mimetype |-> "", text |-> ""] >>

\* The fetch of an audio message succeeded with the two-byte buffer.
C14_Witness ==
    /\ lastCall.op = "requestBlobResolved"
    /\ message.type = "audio"
    /\ lastCall.blobInfo.buffer = ArrayBuffer(<<2, 3>>)
    /\ Len(effects) = 1

\* C15: for a file of subtype image/gif a successful download sets showThumbnail
\* = false, keeps the fetched bytes in blobBuffer, sets downloaded = true and
\* triggers no file save, viewer or audio player; showThumbnail never becomes true
\* again.
C15_GifShownInline ==
    /\ []((lastCall.op = "requestBlobResolved"
             /\ message.type = "file" /\ message.fileType = "image/gif")
            => /\ ~showThumbnail
               /\ blobBuffer = lastCall.blobInfo.buffer
               /\ downloaded
               /\ effects = << >>)
    /\ [][(message.type = "file" /\ message.fileType = "image/gif" /\ ~showThumbnail)
            => ~showThumbnail']_vars

\* The gif was fetched and its thumbnail, shown until then, is hidden.
C15_Witness ==
    /\ lastCall.op = "requestBlobResolved"
    /\ message.type = "file" /\ message.fileType = "image/gif"
    /\ isAnimGif
    /\ ~showThumbnail
    /\ blobBuffer = ArrayBuffer(<<2, 3>>)

\* C16: for a message type other than image, video, file and audio a successful
\* fetch triggers no viewer, file save, audio player or alert and leaves
\* downloaded = true and downloading = false.
C16_UnsupportedTypeIsNoOp ==
    (lastCall.op = "requestBlobResolved"
       /\ message.type \notin {"image", "video", "file", "audio"})
      => /\ effects = << >>
         /\ downloaded
         /\ ~downloading

\* The fetch of a text message succeeded.
C16_Witness ==
    /\ lastCall.op = "requestBlobResolved"
    /\ message.type = "text"
    /\ downloaded

\* C17: isDownloading() is truthy exactly when downloading, or
\* thumbnailDownloading, or a showDownloading predicate is supplied and returns
\* true; with none supplied exactly when downloading or thumbnailDownloading.
C17_IsDownloadingIsDisjunction ==
    \A sd \in ShowDownloadings :
       Truthy(isDownloading(sd))
         <=> \/ downloading
             \/ thumbnailDownloading
             \/ (sd.kind = "function" /\ sd.returns)

\* Only the thumbnail is being fetched, and no predicate is supplied.
C17_Witness ==
    /\ thumbnailDownloading
    /\ ~downloading
    /\ Truthy(isDownloading(Undefined))
    /\ thumbRequests # {}

\* C18: bufferToUrl returns '' for an absent buffer (undefined or null) and for a
\* buffer of length zero, and a non-empty data uri for every non-empty buffer.
C18_EmptyInputGivesEmptyResource ==
    filterOut.kind # "not applied"
      => LET b == filterIn.buffer
         IN  /\ (Falsy(b) \/ Len(b.bytes) = 0) => filterOut = Str(<< >>)
             /\ (~Falsy(b) /\ Len(b.bytes) > 0)
                  => /\ Len(filterOut.chars) > 3
                     /\ filterOut.chars[1] = "data:"

\* The value of a base64 character.
Base64Value(c) == CHOOSE i \in 0..63 : Alphabet[i + 1] = c

\* Base64 decoding of a payload (a sequence of characters, four per group).
RECURSIVE Base64Decode(_)
Base64Decode(p) ==
    IF Len(p) < 4 THEN << >>
    ELSE LET s1 == Base64Value(p[1])
             s2 == Base64Value(p[2])
             b1 == s1 * 4 + (s2 \div 16)
         IN  IF p[3] = "=" THEN << b1 >>
             ELSE LET s3 == Base64Value(p[3])
                      b2 == (s2 % 16) * 16 + (s3 \div 4)
                  IN  IF p[4] = "=" THEN << b1, b2 >>
                      ELSE << b1, b2, (s3 % 4) * 64 + Base64Value(p[4]) >>
                             \o Base64Decode(SubSeq(p, 5, Len(p)))

\* C19: for a non-empty byte sequence b and a mime type m, bufferToUrl(b, m, false)
\* is 'data:' + m + ';base64,' followed by a base64 payload that decodes to b.
C19_Base64RoundTrip ==
    (/\ filterOut.kind # "not applied"
     /\ ~filterIn.trust
     /\ ~Falsy(filterIn.buffer)
     /\ Len(filterIn.buffer.bytes) > 0)
      => LET payload == SubSeq(filterOut.chars, 4, Len(filterOut.chars))
         IN  /\ filterOut.kind = "string"
             /\ SubSeq(filterOut.chars, 1, 3)
                  = << "data:", filterIn.mimeType, ";base64," >>
             /\ Len(payload) % 4 = 0
             /\ Base64Decode(payload) = filterIn.buffer.bytes

\* The bytes 1, 2 as image/png give data:image/png;base64,AQI=
C19_Witness ==
    /\ filterIn = [buffer |-> ArrayBuffer(<<1, 2>>), mimeType |-> "image/png",
                   trust |-> FALSE]
    /\ filterOut = Str(<< "data:", "image/png", ";base64,", "A", "Q", "I", "=" >>)

\* C20: right after a transition from visible to invisible no debounce timer is
\* pending, thumbnail is null, thumbnailDownloading is false and wasInView is
\* false, whatever the state before.
C20_InvisibleResetsThumbnail ==
    [][(lastCall'.op = "thumbnailInView" /\ ~lastCall'.inView /\ wasInView)
         => /\ timers' = {}
            /\ thumbnail' = Null
            /\ ~thumbnailDownloading'
            /\ ~wasInView']_vars

\* The attachment left the view in its second visible period, while that
\* period's timer was pending and the first period's request was in flight.
C20_Witness ==
    /\ lastCall.op = "thumbnailInView" /\ ~lastCall.inView /\ lastCall.wasInView
    /\ period = 2
    /\ 2 \in cancelled
    /\ thumbRequests = {1}
    /\ ~wasInView

\* C21: for a message without thumbnail every thumbnailInView call, with either
\* argument, leaves the controller state unchanged, schedules no timer and
\* issues no request.
C21_NoThumbnailIgnoresVisibility ==
    [][(lastCall'.op = "thumbnailInView" /\ message.thumbnail.kind = "undefined")
         => /\ UNCHANGED << ctrl, pending >>
            /\ UNCHANGED << period, issued, cancelled, blobCalls >>
            /\ effects' = << >>]_vars

\* thumbnailInView(true) was called on a message without thumbnail, after
\* other calls, while a content fetch was outstanding: nothing was recorded.
C21_Witness ==
    /\ message.thumbnail.kind = "undefined"
    /\ lastCall.op = "thumbnailInView" /\ lastCall.inView
    /\ ~wasInView
    /\ thumbnail = Null
    /\ timers = {}
    /\ downloading
    /\ blobCalls = 2

\* C22: once a content fetch has succeeded, downloaded never becomes false
\* again, downloading never becomes true again and a later download() issues
\* no further requestBlob call.
C22_DownloadedIsTerminal ==
    [][(downloaded /\ ~message.location)
         => /\ downloaded'
            /\ downloading' => downloading
            /\ blobCalls' = blobCalls
            /\ blobRequests' <= blobRequests]_vars

\* The request of the current visible period has resolved and its inner
\* callback is pending, the attachment having stayed visible.
C23_CurrentResolved == wasInView /\ \E l \in thumbLoaded : l.id = period

\* The last step applied the completion of the current visible period's request.
C23_CurrentApplied ==
    lastCall.op = "thumbnailLoaded" /\ lastCall.id = period /\ wasInView

\* C23: without embedded thumbnail, when the attachment stays visible the timer
\* issues the request, and when that request resolves with img, eventually
\* thumbnail = bufferToUrl(img, thumbnailFormat) and thumbnailDownloading = false;
\* once set from that request they stay so while the attachment stays visible.
C23_ResolvedThumbnailShownAndKept ==
    /\ (RemoteThumb /\ wasInView /\ period \in timers)
          ~> (period \in Range(issued) \/ ~wasInView)
    /\ C23_CurrentResolved ~> (C23_CurrentApplied \/ ~wasInView)
    /\ [][\A l \in thumbLoaded \ thumbLoaded' :
            (l.id = period /\ wasInView)
               => /\ thumbnail' = bufferToUrl(l.img, thumbnailFormat, TRUE)
                  /\ ~thumbnailDownloading']_vars
    /\ [][(C23_CurrentApplied /\ wasInView')
            => /\ thumbnail' = thumbnail
               /\ ~thumbnailDownloading']_vars

\* Steps of the thumbnail side and of the content side of the controller.
ThumbnailOps ==
    { "thumbnailInView", "loadingThumbnailTimeout", "requestThumbnailResolved",
      "requestThumbnailRejected", "thumbnailLoaded" }
ContentOps == { "download", "requestBlobResolved", "requestBlobRejected" }

\* C24: thumbnailInView calls, timer firings and thumbnail fetch completions leave
\* downloading, downloaded and the outstanding content fetch unchanged; download()
\* calls and content fetch completions leave thumbnail, thumbnailDownloading,
\* wasInView and the pending timers and thumbnail requests unchanged.
C24_ThumbnailAndContentIndependent ==
    [][/\ lastCall'.op \in ThumbnailOps
            => UNCHANGED << downloading, downloaded, blobRequests, blobCalls,
                            blobBuffer, showThumbnail >>
       /\ lastCall'.op \in ContentOps
            => UNCHANGED << thumbnail, thumbnailDownloading, wasInView,
                            loadingThumbnailTimeout, timers, thumbRequests,
                            thumbLoaded, period, issued, cancelled >>]_vars

\* Visibility changed for the fourth time while a content fetch was outstanding
\* and a thumbnail request was in flight.
C24_Witness ==
    /\ lastCall.op = "thumbnailInView"
    /\ lastCall.wasInView # lastCall.inView
    /\ lastCall.downloading /\ downloading /\ blobRequests = 1
    /\ period = 2 /\ ~wasInView
    /\ thumbRequests # {}

\* C25: uploading is initially true exactly when message.temporaryId is neither
\* undefined nor null; an attachment that starts uploading leaves that state
\* (uploading becomes false), and uploading never changes from false to true.
C25_UploadingLeftOnce ==
    /\ [](lastCall.op = "init"
            => uploading = (message.temporaryId \notin {"undefined", "null"}))
    /\ [][~uploading => ~uploading']_vars
    /\ uploading ~> ~uploading

\* C26: GroupControllerModel: isLoading is true in every state in which at least
\* one request issued by the model is unsettled, and false once all of them have
\* settled.
C26_IsLoadingWhileUnsettled == isLoading <=> (Unsettled > 0)

\* C27: GroupControllerModel: the registered onRemoved callback is invoked exactly
\* once, with the group's id, by the success of a deleteGroup request and by
\* nothing else: not by a failed request, not when canDelete is false (then no
\* request is issued and isLoading is unchanged), not by a cancelled dialog.
C27_OnRemovedOncePerDeletion ==
    /\ [](IF lastGroupCall.op = "deleteGroup" /\ lastGroupCall.ok
             /\ ~Falsy(onRemovedCallback)
          THEN onRemovedCalls = << [callback |-> onRemovedCallback, arg |-> group.id] >>
          ELSE onRemovedCalls = << >>)
    /\ [][(lastGroupCall'.op = "reallyDelete" /\ ~accessThrows
             /\ ~group.access.canDelete)
            => /\ UNCHANGED << isLoading, groupRequests >>
               /\ ~lastGroupCall'.ok]_vars
    /\ [][lastGroupCall'.op = "cancelled"
            => UNCHANGED << isLoading, groupRequests >>]_vars

\* A deleteGroup request succeeded while another request was outstanding, and
\* the callback registered last was called with the group's id.
C27_Witness ==
    /\ lastGroupCall.op = "deleteGroup" /\ lastGroupCall.ok
    /\ group.id = "g3"
    /\ onRemovedCalls = << [callback |-> [kind |-> "function", name |-> "onRemovedLater"],
                            arg |-> "g3"] >>
    /\ Unsettled = 1

=============================================================================
